---- MODULE Spec2Model ----
(***************************************************************************)
(* The OcctImportDemo component: file selection, the import pipeline       *)
(* (processFile), mesh materialization (renderModel), the render loop      *)
(* (animate) and teardown.  Two copies of the component exist in the       *)
(* repository: the <script setup> one (OcctImportDemo.vue) and an Options  *)
(* API one (src/unnamed/part_001).  `variant` selects which one runs.      *)
(*                                                                         *)
(* Every action is one browser task together with the microtasks it        *)
(* queues (Vue's render flush, nextTick continuations).  Tasks never       *)
(* interleave inside one another: the component runs on one thread.        *)
(***************************************************************************)
EXTENDS Integers, Sequences, FiniteSets, TLC

----------------------------------------------------------------------------
(* Bounds of the model *)

MaxSelect == 2

MaxRuns == 2

MaxMeshes == 2

MaxFrames == 2

----------------------------------------------------------------------------
(* Strings are tuples of one-character strings *)

Lower(c) ==
    CASE c = "A" -> "a" [] c = "B" -> "b" [] c = "E" -> "e" [] c = "G" -> "g"
      [] c = "I" -> "i" [] c = "P" -> "p" [] c = "R" -> "r" [] c = "S" -> "s"
      [] c = "T" -> "t" [] c = "X" -> "x" [] OTHER -> c

ToLowerCase(s) == [i \in 1..Len(s) |-> Lower(s[i])]

EndsWith(s, suf) ==
    /\ Len(suf) <= Len(s)
    /\ SubSeq(s, Len(s) - Len(suf) + 1, Len(s)) = suf

DotStep == <<".", "s", "t", "e", "p">>
DotStp == <<".", "s", "t", "p">>
DotIges == <<".", "i", "g", "e", "s">>
DotIgs == <<".", "i", "g", "s">>
DotBrep == <<".", "b", "r", "e", "p">>

(* The file names a user may select *)
FileNames ==
    { <<"a", ".", "s", "t", "e", "p">>,
      <<"A", ".", "S", "T", "P">>,
      <<"b", ".", "I", "g", "e", "s">>,
      <<"b", ".", "i", "g", "s">>,
      <<"x", ".", "B", "r", "e", "p">>,
      <<"s", "t", "e", "p">>,
      <<"a", ".", "s", "t", "e", "p", ".", "t", "x", "t">> }

(* A dispatch that compares the name as typed, without lower-casing it *)
ImportFunctionForAsTyped(name) ==
    IF EndsWith(name, DotStep) \/ EndsWith(name, DotStp) THEN "ReadStepFile"
    ELSE IF EndsWith(name, DotIges) \/ EndsWith(name, DotIgs) THEN "ReadIgesFile"
    ELSE IF EndsWith(name, DotBrep) THEN "ReadBrepFile"
    ELSE "none"

(* processFile's extension dispatch: the entry point, or "none" *)
ImportFunctionFor(name) ==
    LET fileName == ToLowerCase(name) IN
    IF EndsWith(fileName, DotStep) \/ EndsWith(fileName, DotStp) THEN "ReadStepFile"
    ELSE IF EndsWith(fileName, DotIges) \/ EndsWith(fileName, DotIgs) THEN "ReadIgesFile"
    ELSE IF EndsWith(fileName, DotBrep) THEN "ReadBrepFile"
    ELSE "none"

----------------------------------------------------------------------------
(* Values *)

Variants == {"setup", "options"}

Null == <<>>

(* e.message of a thrown value; a thrown non-Error value has none *)
Reasons == {<<"E">>}

Undefined == "undefined"

Text(opt) == IF opt = Null THEN Undefined ELSE opt[1]

(* Lengths are kept in units of 1/Unit, so that halving a length and scaling
   it by an aspect ratio with denominator 1, 2 or 3 stays exact *)
Unit == 4 * 6

(* A coordinate triple a + b / tan(fov / 2), a and b in units of 1/Unit: the
   camera distance is a multiple of 1 / tan(fov / 2), which is not rational *)
Pt(a, b) == [a |-> a, b |-> b]

Zero3 == <<0, 0, 0>>

Origin == Pt(Zero3, Zero3)

(* camera.position.set(5, 5, 5) *)
DefaultCameraPosition == Pt(<<5 * Unit, 5 * Unit, 5 * Unit>>, Zero3)

(* The bounding box of a mesh: Null when its positions hold no vertex *)
PlainBox == <<[lo |-> <<0, 0, 0>>, hi |-> <<1, 1, 0>>]>>

(* The element type of the index buffer renderModel builds for a position
   array of the given length, with the division truncated to a vertex count *)
IndexArrayTypeByCount(len) ==
    IF len \div 3 > 65535 THEN "Uint32Array" ELSE "Uint16Array"

(* positions.length / 3 > 65535 ? Uint32Array : Uint16Array; the division is
   a floating-point one, so the test is whether length exceeds 3 * 65535 *)
IndexArrayType(len) ==
    IF len > 3 * 65535 THEN "Uint32Array" ELSE "Uint16Array"

(* The material of a record: its colour, each channel over 255, when the
   colour has exactly three channels, else the default gray; double-sided *)
DefaultGray == 13421772

MaterialForAnyColor(meshData) ==
    IF meshData.color # Null
    THEN [kind |-> "rgb",
          rgb |-> [i \in 1..Len(meshData.color[1]) |->
                     [num |-> meshData.color[1][i], den |-> 255]],
          hex |-> 0, side |-> "DoubleSide"]
    ELSE [kind |-> "hex", rgb |-> <<>>, hex |-> DefaultGray, side |-> "DoubleSide"]

MaterialFor(meshData) ==
    IF meshData.color # Null /\ Len(meshData.color[1]) = 3
    THEN [kind |-> "rgb",
          rgb |-> [i \in 1..3 |-> [num |-> meshData.color[1][i], den |-> 255]],
          hex |-> 0, side |-> "DoubleSide"]
    ELSE [kind |-> "hex", rgb |-> <<>>, hex |-> DefaultGray, side |-> "DoubleSide"]

(* One MeshRecord: whether attributes.position.array and index.array exist,
   the length of the position array, the bounding box of the vertices it
   holds, and the optional colour *)
MeshRecords ==
    {[pos |-> p, idx |-> i, len |-> 9, box |-> PlainBox, color |-> Null] :
       p \in BOOLEAN, i \in BOOLEAN}

MeshLists == UNION {[1..n -> MeshRecords] : n \in 0..MaxMeshes}

(* ImportResult: success, optional error, optional meshes *)
ImportResults ==
    {[success |-> TRUE, error |-> Null, hasMeshes |-> FALSE, meshes |-> <<>>]}
    \cup {[success |-> TRUE, error |-> Null, hasMeshes |-> TRUE, meshes |-> m] :
            m \in MeshLists}
    \cup {[success |-> FALSE, error |-> e, hasMeshes |-> FALSE, meshes |-> <<>>] :
            e \in Reasons \cup {Null}}

(* What an import entry point does: return a result, or throw *)
Outcomes ==
    {[kind |-> "return", r |-> <<r>>, msg |-> Null] : r \in ImportResults}
    \cup {[kind |-> "throw", r |-> Null, msg |-> m] : m \in Reasons \cup {Null}}

NoFileMsg == <<"No file selected or file content not loaded.", "">>

UnsupportedMsg == <<"Unsupported file type. Please select .step, .iges, or .brep.", "">>

ReadFailedMsg == <<"Failed to read file: ", "NotReadableError">>

ImportFailedMsgNoReason(v, r) == <<"Import failed: ", "">>

ImportFailedMsg(v, r) ==
    <<"Import failed: ",
      IF r.error # Null THEN r.error[1]
      ELSE IF v = "setup" THEN "Unknown error."
      ELSE "Unknown error occurred during import.">>

CaughtMsg(v, msg) ==
    <<IF v = "setup" THEN "Error during OCCT import: "
      ELSE "Error during OCCT import initialization or processing: ",
      Text(msg)>>

TypeErrorMsg == <<"Cannot read properties of null">>

WebGLErrorMsg == <<"Error creating WebGL context.">>

----------------------------------------------------------------------------
(* State *)

VARIABLES
    variant,            \* which copy of the component runs
    life,               \* "created", "mounted", "unmounted"
    selectedFile,       \* Null or <<[id, name]>>
    fileContent,        \* 0 (null) or the id of the selection whose bytes it holds
    loading, result, error,
    animationFrameId,   \* 0 (null) or the id of a frame request
    threeCanvas,        \* 0 (no canvas in the view) or the canvas element
    scene, camera, renderer, controls, modelGroup,   \* 0 (null) or an object
    nInit,              \* objects created by initThreeDScene so far
    children,           \* children of each model group created
    meshes,             \* every mesh created, with its dispose counts
    rDisposed, cDisposed,   \* renderers and controllers that were disposed
    rendererCanvas,     \* the canvas the renderer was created on
    layout,             \* clientWidth / clientHeight of the canvas, <<num, den>>
    aspect,             \* camera.aspect, <<num, den>>
    camPos, camAim,     \* camera.position and the point of the last lookAt
    ctlTarget,          \* controls.target
    rafPending,         \* frame requests registered with the browser
    nFrame,             \* frame requests made so far
    nCanvas,            \* canvas elements created so far
    readers,            \* selections whose FileReader has not called back
    nSel,               \* selections that started a read
    selReadFailed,      \* the read of the selected file reported an error
    inflight,           \* processFile invocations suspended on the WASM module
    nRuns,              \* processFile invocations that got past the content check
    uncaught,           \* exceptions that escaped every handler
    staleTick,          \* animate ran after teardown
    deadDraw,           \* animate used a disposed renderer or controller
    tdLog,              \* what teardown did, in order
    lastRun             \* what the step just taken did, if it resumed processFile

three == <<scene, camera, renderer, controls, modelGroup, nInit, children, meshes,
           rDisposed, cDisposed, rafPending, nFrame, animationFrameId,
           staleTick, deadDraw, rendererCanvas, layout, aspect, camPos, camAim,
           ctlTarget>>

vars == <<variant, life, selectedFile, fileContent, loading, result, error,
          threeCanvas, nCanvas, readers, nSel, selReadFailed, inflight, nRuns,
          uncaught, tdLog, lastRun, three>>

(* The Three.js side of the state as one value *)
Cur ==
    [scene |-> scene, camera |-> camera, renderer |-> renderer,
     controls |-> controls, modelGroup |-> modelGroup, nInit |-> nInit,
     children |-> children, meshes |-> meshes, rDisposed |-> rDisposed,
     cDisposed |-> cDisposed, rafPending |-> rafPending, nFrame |-> nFrame,
     animationFrameId |-> animationFrameId, staleTick |-> staleTick,
     deadDraw |-> deadDraw, rendererCanvas |-> rendererCanvas,
     layout |-> layout, aspect |-> aspect, camPos |-> camPos,
     camAim |-> camAim, ctlTarget |-> ctlTarget]

Put(S) ==
    /\ scene' = S.scene
    /\ camera' = S.camera
    /\ renderer' = S.renderer
    /\ controls' = S.controls
    /\ modelGroup' = S.modelGroup
    /\ nInit' = S.nInit
    /\ children' = S.children
    /\ meshes' = S.meshes
    /\ rDisposed' = S.rDisposed
    /\ cDisposed' = S.cDisposed
    /\ rafPending' = S.rafPending
    /\ nFrame' = S.nFrame
    /\ animationFrameId' = S.animationFrameId
    /\ staleTick' = S.staleTick
    /\ deadDraw' = S.deadDraw
    /\ rendererCanvas' = S.rendererCanvas
    /\ layout' = S.layout
    /\ aspect' = S.aspect
    /\ camPos' = S.camPos
    /\ camAim' = S.camAim
    /\ ctlTarget' = S.ctlTarget

NoRun ==
    [sel |-> Null, fn |-> "none", called |-> 0, bytes |-> 0, outcome |-> "none",
     reason |-> Null, groupAtCall |-> <<>>, liveAtCall |-> {},
     readFailedAtCall |-> FALSE, rec |-> <<>>, rendered |-> FALSE,
     errBefore |-> Null]

(* The state after construction, for a canvas laid out with one of the given
   ratios clientWidth / clientHeight *)
Start(layouts) ==
    /\ variant \in Variants
    /\ life = "created"
    /\ selectedFile = Null
    /\ fileContent = 0
    /\ loading = FALSE
    /\ result = Null
    /\ error = Null
    /\ animationFrameId = 0
    /\ threeCanvas = 0
    /\ scene = 0 /\ camera = 0 /\ renderer = 0 /\ controls = 0 /\ modelGroup = 0
    /\ nInit = 0
    /\ children = <<>>
    /\ meshes = <<>>
    /\ rDisposed = {} /\ cDisposed = {}
    /\ rendererCanvas = 0
    /\ layout \in layouts
    /\ aspect = Null
    /\ camPos = Null /\ camAim = Null /\ ctlTarget = Null
    /\ rafPending = {}
    /\ nFrame = 0
    /\ nCanvas = 0
    /\ readers = {}
    /\ nSel = 0
    /\ selReadFailed = FALSE
    /\ inflight = 0
    /\ nRuns = 0
    /\ uncaught = 0
    /\ staleTick = FALSE
    /\ deadDraw = FALSE
    /\ tdLog = <<>>
    /\ lastRun = NoRun

(* A canvas 1000px wide and, by the style sheet, 500px high *)
Init == Start({<<2, 1>>})

----------------------------------------------------------------------------
(* The Three.js side: clearModel, animate, initThreeDScene, renderModel *)

Dispose(ms, id) == [ms EXCEPT ![id].geom = @ + 1, ![id].mat = @ + 1]

(* clearModel's loop: take children[0] out of the group, dispose it, repeat *)
RECURSIVE ClearLoop(_, _)
ClearLoop(S, g) ==
    IF Len(S.children[g]) = 0 THEN S
    ELSE LET object == Head(S.children[g]) IN
         ClearLoop([S EXCEPT !.children[g] = Tail(@),
                             !.meshes = Dispose(@, object)], g)

(* A clearModel that disposes the children but leaves them in the group *)
RECURSIVE DisposeOnly(_, _, _)
DisposeOnly(S, g, i) ==
    IF i > Len(S.children[g]) THEN S
    ELSE DisposeOnly([S EXCEPT !.meshes = Dispose(@, S.children[g][i])], g, i + 1)

ClearModelKeep(S) ==
    IF S.modelGroup # 0 THEN DisposeOnly(S, S.modelGroup, 1) ELSE S

(* A clearModel that does nothing *)
ClearModelNoop(S) == S

(* A clearModel whose loop body runs once: an if in place of the while *)
ClearModelFirst(S) ==
    IF S.modelGroup # 0 /\ Len(S.children[S.modelGroup]) > 0
    THEN [S EXCEPT !.children[S.modelGroup] = Tail(@),
                   !.meshes = Dispose(@, Head(S.children[S.modelGroup]))]
    ELSE S

ClearModel(S) ==
    IF S.modelGroup # 0 THEN ClearLoop(S, S.modelGroup) ELSE S

(* animate: request the next frame, update the controller, draw *)
Animate(S, torn) ==
    LET id == S.nFrame + 1 IN
    [S EXCEPT !.nFrame = id,
              !.animationFrameId = id,
              !.rafPending = @ \cup {id},
              !.staleTick = @ \/ torn,
              !.deadDraw = @ \/ (S.controls # 0 /\ S.controls \in S.cDisposed)
                             \/ (S.renderer # 0 /\ S.scene # 0 /\ S.camera # 0
                                 /\ S.renderer \in S.rDisposed)]

(* initThreeDScene; webgl says whether the WebGLRenderer constructor succeeds.
   The result is the new state and the message of the exception thrown, if any. *)
InitThreeDScene(S, canvas, webgl, torn) ==
    IF canvas = 0 THEN [s |-> S, threw |-> Null]
    ELSE LET k == S.nInit + 1
             S1 == [S EXCEPT !.nInit = k, !.scene = k, !.camera = k,
                             !.aspect = S.layout,
                             !.camPos = <<DefaultCameraPosition>>,
                             !.camAim = Null]
         IN  IF ~webgl THEN [s |-> S1, threw |-> WebGLErrorMsg]
             ELSE [s |-> Animate([S1 EXCEPT !.renderer = k,
                                            !.rendererCanvas = canvas,
                                            !.controls = k,
                                            !.ctlTarget = <<Origin>>,
                                            !.modelGroup = k,
                                            !.children = (k :> <<>>) @@ @],
                                 torn),
                   threw |-> Null]

(* The validity test of renderModel's forEach callback *)
ValidRecordPosOnly(meshData) == meshData.pos

ValidRecord(meshData) == meshData.pos /\ meshData.idx

Min2(x, y) == IF x <= y THEN x ELSE y

Max2(x, y) == IF x >= y THEN x ELSE y

Abs(x) == IF x < 0 THEN 0 - x ELSE x

(* Box3.union: an empty box adds nothing *)
BoxUnion(b1, b2) ==
    IF b1 = Null THEN b2
    ELSE IF b2 = Null THEN b1
    ELSE <<[lo |-> [k \in 1..3 |-> Min2(b1[1].lo[k], b2[1].lo[k])],
            hi |-> [k \in 1..3 |-> Max2(b1[1].hi[k], b2[1].hi[k])]]>>

(* renderModel's forEach over importResult.meshes, from record i on; bbox is
   the box accumulated so far *)
RECURSIVE Materialize(_, _, _, _, _, _)
Materialize(S, recs, i, run, bbox, firstMesh) ==
    IF i > Len(recs) THEN [s |-> S, threw |-> Null, bbox |-> bbox]
    ELSE IF ~ValidRecord(recs[i])
         THEN Materialize(S, recs, i + 1, run, bbox, firstMesh)
    ELSE IF S.modelGroup = 0 THEN [s |-> S, threw |-> TypeErrorMsg, bbox |-> bbox]
    ELSE LET mesh == Len(S.meshes) + 1
             S1 == [S EXCEPT
                      !.meshes = Append(@, [run |-> run, rec |-> i,
                                            geom |-> 0, mat |-> 0,
                                            index |-> IndexArrayType(recs[i].len),
                                            material |-> MaterialFor(recs[i])]),
                      !.children[S.modelGroup] = Append(@, mesh)]
         IN  Materialize(S1, recs, i + 1, run,
                         IF firstMesh THEN recs[i].box
                         ELSE BoxUnion(bbox, recs[i].box),
                         FALSE)

(* resetCameraView *)
ResetCameraViewKeepTarget(S) ==
    IF S.camera # 0
    THEN [S EXCEPT !.camPos = <<DefaultCameraPosition>>, !.camAim = <<Origin>>]
    ELSE S

ResetCameraView(S) ==
    LET S1 == IF S.camera # 0
              THEN [S EXCEPT !.camPos = <<DefaultCameraPosition>>,
                             !.camAim = <<Origin>>]
              ELSE S
    IN  IF S1.controls # 0 THEN [S1 EXCEPT !.ctlTarget = <<Origin>>] ELSE S1

(* The camera distance for a box whose largest extent is maxDim, as a multiple
   of 1 / tan(fov / 2), in units of 1/Unit *)
CameraDistanceAlwaysScaled(maxDim, asp) ==
    (Abs(maxDim * Unit) * asp[1]) \div (2 * asp[2])

CameraDistance(maxDim, asp) ==
    LET d == Abs(maxDim * Unit) \div 2 IN
    IF asp[1] > asp[2] THEN (d * asp[1]) \div asp[2] ELSE d

(* renderModel's fitting of the camera to a non-empty box *)
FitCamera(S, bbox) ==
    LET lo == bbox[1].lo
        hi == bbox[1].hi
        center == Pt([k \in 1..3 |-> ((lo[k] + hi[k]) * Unit) \div 2], Zero3)
        size == [k \in 1..3 |-> hi[k] - lo[k]]
        maxDim == Max2(size[1], Max2(size[2], size[3]))
        cameraZ == CameraDistance(maxDim, S.aspect)
        S1 == [S EXCEPT !.camPos = <<Pt(center.a, <<0, cameraZ \div 2, cameraZ>>)>>,
                        !.camAim = <<center>>]
    IN  IF S1.controls # 0 THEN [S1 EXCEPT !.ctlTarget = <<center>>] ELSE S1

(* A renderModel that initializes the scene on every call *)
NeedInitAlways(S) == TRUE

(* renderModel's test before initThreeDScene: scene, camera or renderer missing *)
NeedInit(S) == S.scene = 0 \/ S.camera = 0 \/ S.renderer = 0

(* renderModel(importResult), called by invocation `run` of processFile *)
RenderModel(S, r, canvas, webgl, torn, run) ==
    LET needInit == NeedInit(S)
        I == IF needInit THEN InitThreeDScene(S, canvas, webgl, torn)
             ELSE [s |-> S, threw |-> Null]
    IN  IF I.threw # Null THEN [s |-> I.s, threw |-> I.threw, drew |-> FALSE]
        ELSE IF I.s.scene = 0 THEN [s |-> I.s, threw |-> Null, drew |-> FALSE]
        ELSE LET S1 == ClearModel(I.s) IN
             IF ~r.hasMeshes \/ Len(r.meshes) = 0
             THEN [s |-> ResetCameraView(S1), threw |-> Null, drew |-> TRUE]
             ELSE LET M == Materialize(S1, r.meshes, 1, run, Null, TRUE)
                  IN  IF M.threw # Null
                      THEN [s |-> M.s, threw |-> M.threw, drew |-> FALSE]
                      ELSE IF M.bbox # Null
                      THEN [s |-> FitCamera(M.s, M.bbox), threw |-> Null,
                            drew |-> TRUE]
                      ELSE [s |-> ResetCameraView(M.s), threw |-> Null,
                            drew |-> TRUE]

----------------------------------------------------------------------------
(* Teardown: the onBeforeUnmount / beforeUnmount hook *)

Ev(op, id) == [op |-> op, id |-> id]

(* 1. cancel the frame request animationFrameId names *)
CancelFrameSkip(T, v) == T

CancelFrame(T, v) ==
    IF T.s.animationFrameId # 0
    THEN [s |-> [T.s EXCEPT !.rafPending = @ \ {T.s.animationFrameId},
                            !.animationFrameId = IF v = "options" THEN 0 ELSE @],
          log |-> Append(T.log, Ev("cancel", T.s.animationFrameId))]
    ELSE T

(* 2. dispose the renderer and forget it *)
ReleaseRenderer(T) ==
    IF T.s.renderer # 0
    THEN [s |-> [T.s EXCEPT !.rDisposed = @ \cup {T.s.renderer}, !.renderer = 0],
          log |-> Append(T.log, Ev("renderer", T.s.renderer))]
    ELSE T

(* 3. dispose the orbit controller; only the Options copy forgets it *)
ReleaseControls(T, v) ==
    IF T.s.controls # 0
    THEN [s |-> [T.s EXCEPT !.cDisposed = @ \cup {T.s.controls},
                            !.controls = IF v = "options" THEN 0 ELSE @],
          log |-> Append(T.log, Ev("controls", T.s.controls))]
    ELSE T

(* 4. scene.traverse: dispose geometry and material of every mesh in the scene;
      the scene of initialization k holds model group k, when that was created *)
RECURSIVE TraverseFrom(_, _, _)
TraverseFrom(T, g, i) ==
    IF i > Len(T.s.children[g]) THEN T
    ELSE LET m == T.s.children[g][i] IN
         TraverseFrom([s |-> [T.s EXCEPT !.meshes = Dispose(@, m)],
                       log |-> T.log \o <<Ev("geometry", m), Ev("material", m)>>],
                      g, i + 1)

TraverseScene(T) ==
    IF T.s.scene # 0 /\ T.s.scene \in DOMAIN T.s.children
    THEN TraverseFrom(T, T.s.scene, 1)
    ELSE T

(* 5. scene = camera = modelGroup = null *)
DropReferences(T) ==
    [s |-> [T.s EXCEPT !.scene = 0, !.camera = 0, !.modelGroup = 0],
     log |-> Append(T.log, Ev("drop", 0))]

(* A teardown that releases the meshes before the renderer *)
TeardownMeshesFirst(S, v) ==
    DropReferences(
      ReleaseControls(
        ReleaseRenderer(
          TraverseScene(
            CancelFrame([s |-> S, log |-> <<>>], v))), v))

Teardown(S, v) ==
    DropReferences(
      TraverseScene(
        ReleaseControls(
          ReleaseRenderer(
            CancelFrame([s |-> S, log |-> <<>>], v)), v)))

----------------------------------------------------------------------------
(* The view: what the template renders from the reactive state *)

(* <button :disabled="!selectedFile || loading"> *)
ButtonDisabledNoLoading(sel, ld) == sel = Null

ButtonDisabled(sel, ld) == sel = Null \/ ld

(* <div class="viewer-section" v-if="result && result.success"> holds the canvas *)
ViewerShown(res) == res # Null /\ res[1].success

(* A view that keeps rendering, and filling the canvas ref, after unmount *)
CanvasAfterFlushAnyLife(res, lf, cv, nc) ==
    IF ~ViewerShown(res) THEN 0
    ELSE IF cv # 0 THEN cv
    ELSE nc + 1

(* The canvas ref after a render flush *)
CanvasAfterFlush(res, lf, cv, nc) ==
    IF lf # "mounted" THEN cv
    ELSE IF ~ViewerShown(res) THEN 0
    ELSE IF cv # 0 THEN cv
    ELSE nc + 1

----------------------------------------------------------------------------
(* Steps *)

GroupNow == IF modelGroup # 0 THEN children[modelGroup] ELSE <<>>

Live == {i \in 1..Len(meshes) : meshes[i].geom = 0 \/ meshes[i].mat = 0}

(* onMounted: nextTick(() => initThreeDScene()) *)
Mount ==
    /\ life = "created"
    /\ life' = "mounted"
    /\ LET I == InitThreeDScene(Cur, threeCanvas, TRUE, FALSE) IN
       /\ Put(I.s)
       /\ uncaught' = IF I.threw # Null THEN uncaught + 1 ELSE uncaught
    /\ lastRun' = NoRun
    /\ UNCHANGED <<variant, selectedFile, fileContent, loading, result, error,
                   threeCanvas, nCanvas, readers, nSel, selReadFailed, inflight,
                   nRuns, tdLog>>

(* handleFileUpload; f is Null when the file dialog yields no file *)
HandleFileUpload(f) ==
    /\ life = "mounted"
    /\ f # Null => nSel < MaxSelect
    /\ selectedFile' = IF f = Null THEN Null
                       ELSE <<[id |-> nSel + 1, name |-> f[1]]>>
    /\ result' = Null
    /\ error' = Null
    /\ fileContent' = 0
    /\ Put(ClearModel(Cur))
    /\ nSel' = IF f = Null THEN nSel ELSE nSel + 1
    /\ readers' = IF f = Null THEN readers ELSE readers \cup {nSel + 1}
    /\ threeCanvas' = CanvasAfterFlush(Null, life, threeCanvas, nCanvas)
    /\ selReadFailed' = FALSE
    /\ lastRun' = NoRun
    /\ UNCHANGED <<variant, life, loading, nCanvas, inflight, nRuns, uncaught,
                   tdLog>>

(* reader.onload *)
ReaderOnLoad(id) ==
    /\ id \in readers
    /\ readers' = readers \ {id}
    /\ fileContent' = id
    /\ lastRun' = NoRun
    /\ UNCHANGED <<variant, life, selectedFile, loading, result, error, threeCanvas,
                   nCanvas, nSel, selReadFailed, inflight, nRuns, uncaught, tdLog,
                   three>>

(* reader.onerror *)
ReaderOnError(id) ==
    /\ id \in readers
    /\ readers' = readers \ {id}
    /\ error' = ReadFailedMsg
    /\ fileContent' = 0
    /\ selReadFailed' = (selReadFailed
                          \/ (selectedFile # Null /\ selectedFile[1].id = id))
    /\ lastRun' = NoRun
    /\ UNCHANGED <<variant, life, selectedFile, loading, result, threeCanvas,
                   nCanvas, nSel, inflight, nRuns, uncaught, tdLog, three>>

(* A content check that lets every call through *)
HasContentAlways(fc) == TRUE

(* processFile's content check: fileContent.value is not null *)
HasContent(fc) == fc # 0

(* A click on the Process button: processFile up to its first await *)
ProcessFile ==
    /\ life = "mounted"
    /\ ~ButtonDisabled(selectedFile, loading)
    /\ IF ~HasContent(fileContent)
       THEN /\ error' = NoFileMsg
            /\ UNCHANGED <<loading, result, threeCanvas, inflight, nRuns, three>>
       ELSE /\ nRuns < MaxRuns
            /\ loading' = TRUE
            /\ result' = Null
            /\ error' = Null
            /\ Put(ClearModel(Cur))
            /\ inflight' = inflight + 1
            /\ nRuns' = nRuns + 1
            /\ threeCanvas' = CanvasAfterFlush(Null, life, threeCanvas, nCanvas)
    /\ lastRun' = NoRun
    /\ UNCHANGED <<variant, life, selectedFile, fileContent, nCanvas, readers, nSel,
                   selReadFailed, uncaught, tdLog>>

(* A rejection handled by the catch block alone, with no finally *)
WasmRejectedNoFinally(msg) ==
    /\ inflight > 0
    /\ inflight' = inflight - 1
    /\ error' = CaughtMsg(variant, msg)
    /\ lastRun' = [NoRun EXCEPT !.sel = selectedFile, !.outcome = "reject",
                                !.reason = msg, !.errBefore = error]
    /\ UNCHANGED <<variant, life, selectedFile, fileContent, result, threeCanvas,
                   nCanvas, readers, nSel, selReadFailed, nRuns, uncaught, tdLog,
                   three, loading>>

(* occtimportjs() rejects: catch and finally *)
WasmRejected(msg) ==
    /\ inflight > 0
    /\ inflight' = inflight - 1
    /\ error' = CaughtMsg(variant, msg)
    /\ loading' = FALSE
    /\ lastRun' = [NoRun EXCEPT !.sel = selectedFile, !.outcome = "reject",
                                !.reason = msg, !.errBefore = error]
    /\ UNCHANGED <<variant, life, selectedFile, fileContent, result, threeCanvas,
                   nCanvas, readers, nSel, selReadFailed, nRuns, uncaught, tdLog,
                   three>>

(* occtimportjs() resolves: the rest of processFile, with the render flush and
   the nextTick step that follow it in the same task.  o is what the import
   entry point does if it is called, webgl whether a WebGL context can be made. *)
WasmResolved(o, webgl) ==
    LET sel    == selectedFile
        fn     == IF sel = Null THEN "none" ELSE ImportFunctionFor(sel[1].name)
        called == sel # Null /\ fn # "none"
        ret    == called /\ o.kind = "return"
        r      == o.r[1]
        ok     == ret /\ r.success
        res    == IF ret THEN o.r ELSE result
        canvas == CanvasAfterFlush(res, life, threeCanvas, nCanvas)
        R      == IF ok
                  THEN RenderModel(Cur, r, canvas, webgl, life = "unmounted",
                                   nRuns - inflight + 1)
                  ELSE [s |-> Cur, threw |-> Null, drew |-> FALSE]
        thrown == R.threw # Null
    IN  /\ inflight > 0
        /\ inflight' = inflight - 1
        /\ result' = res
        /\ threeCanvas' = canvas
        /\ nCanvas' = IF canvas > nCanvas THEN canvas ELSE nCanvas
        /\ Put(R.s)
        /\ error' =
             IF sel = Null THEN CaughtMsg(variant, TypeErrorMsg)
             ELSE IF fn = "none" THEN UnsupportedMsg
             ELSE IF o.kind = "throw" THEN CaughtMsg(variant, o.msg)
             ELSE IF ~r.success THEN ImportFailedMsg(variant, r)
             ELSE IF thrown /\ variant = "setup" THEN CaughtMsg(variant, R.threw)
             ELSE error
        /\ uncaught' = IF thrown /\ variant = "options" THEN uncaught + 1
                       ELSE uncaught
        /\ loading' = FALSE
        /\ lastRun' =
             [sel |-> sel,
              fn |-> fn,
              called |-> IF called THEN 1 ELSE 0,
              bytes |-> IF called THEN fileContent ELSE 0,
              outcome |-> IF sel = Null THEN "typeerror"
                          ELSE IF fn = "none" THEN "unsupported"
                          ELSE IF o.kind = "throw" THEN "throw"
                          ELSE IF ~r.success THEN "fail"
                          ELSE IF thrown THEN "renderthrow"
                          ELSE "ok",
              reason |-> IF ~called THEN Null
                         ELSE IF o.kind = "throw" THEN o.msg
                         ELSE IF ~r.success THEN r.error
                         ELSE R.threw,
              groupAtCall |-> IF called THEN GroupNow ELSE <<>>,
              liveAtCall |-> IF called THEN Live ELSE {},
              readFailedAtCall |-> called /\ selReadFailed,
              rec |-> IF ok /\ r.hasMeshes THEN r.meshes ELSE <<>>,
              rendered |-> R.drew,
              errBefore |-> error]
        /\ UNCHANGED <<variant, life, selectedFile, fileContent, readers, nSel,
                       selReadFailed, nRuns, tdLog>>

(* The browser runs a registered frame callback: animate *)
AnimateTick(id) ==
    /\ id \in rafPending
    /\ nFrame < MaxFrames
    /\ Put(Animate([Cur EXCEPT !.rafPending = @ \ {id}], life = "unmounted"))
    /\ lastRun' = NoRun
    /\ UNCHANGED <<variant, life, selectedFile, fileContent, loading, result, error,
                   threeCanvas, nCanvas, readers, nSel, selReadFailed, inflight,
                   nRuns, uncaught, tdLog>>

(* The component is unmounted: the teardown hook runs, then the view is removed *)
Unmount ==
    /\ life = "mounted"
    /\ life' = "unmounted"
    /\ LET T == Teardown(Cur, variant) IN
       /\ Put(T.s)
       /\ tdLog' = T.log
    /\ threeCanvas' = 0
    /\ lastRun' = NoRun
    /\ UNCHANGED <<variant, selectedFile, fileContent, loading, result, error,
                   nCanvas, readers, nSel, selReadFailed, inflight, nRuns,
                   uncaught>>

Next ==
    \/ Mount
    \/ \E f \in {Null} \cup {<<n>> : n \in FileNames} : HandleFileUpload(f)
    \/ \E id \in readers : ReaderOnLoad(id)
    \/ \E id \in readers : ReaderOnError(id)
    \/ ProcessFile
    \/ \E msg \in Reasons \cup {Null} : WasmRejected(msg)
    \/ \E o \in Outcomes, webgl \in BOOLEAN : WasmResolved(o, webgl)
    \/ \E id \in rafPending : AnimateTick(id)
    \/ Unmount

Spec == Init /\ [][Next]_vars

-----------------------------------------------------------------------------
(* The renderer's arithmetic: the same component, importing one file whose
   mesh records vary in the length of the position array, in the box their
   vertices span and in their colour, on canvases of several shapes *)

(* The canvas is 500px high and as wide as its container: 375px, 500px, 1000px *)
Layouts == {<<3, 4>>, <<1, 1>>, <<2, 1>>}

(* Container widths a resize may leave *)
Widths == {400, 1500}

RichLengths == {9, 10, 196605, 196606, 196607, 196608}

PointBox == <<[lo |-> <<0, 0, 0>>, hi |-> <<0, 0, 0>>]>>

WideBox == <<[lo |-> <<0 - 2, 0, 1>>, hi |-> <<2, 1, 3>>]>>

RichBoxes == {Null, PlainBox, PointBox, WideBox}

(* A colour is absent, or an array of bytes of any length *)
RichColors == {Null, <<<<>>>>, <<<<255, 0, 128>>>>, <<<<255, 0>>>>, <<<<0, 0, 0, 255>>>>}

Rec(len, box, color) ==
    [pos |-> TRUE, idx |-> TRUE, len |-> len, box |-> box, color |-> color]

BoxRecords == {Rec(IF b = Null THEN 0 ELSE 9, b, Null) : b \in RichBoxes}

RichRecords ==
    {Rec(l, PlainBox, Null) : l \in RichLengths}
    \cup BoxRecords
    \cup {Rec(9, PlainBox, c) : c \in RichColors}

RichMeshLists ==
    {<<>>}
    \cup {<<r>> : r \in RichRecords}
    \cup {<<r1, r2>> : r1 \in BoxRecords, r2 \in BoxRecords}

RichOutcomes ==
    {[kind |-> "return",
      r |-> <<[success |-> TRUE, error |-> Null, hasMeshes |-> TRUE, meshes |-> m]>>,
      msg |-> Null] : m \in RichMeshLists}

(* onWindowResize, for a container of the given width *)
WindowResize(width) ==
    /\ life = "mounted"
    /\ aspect' = IF threeCanvas # 0 /\ camera # 0 /\ renderer # 0
                 THEN <<4 * width, Min2(3 * width, 4 * 500)>>
                 ELSE aspect
    /\ lastRun' = NoRun
    /\ UNCHANGED <<variant, life, selectedFile, fileContent, loading, result, error,
                   animationFrameId, threeCanvas, scene, camera, renderer, controls,
                   modelGroup, nInit, children, meshes, rDisposed, cDisposed,
                   rendererCanvas, layout, camPos, camAim, ctlTarget, rafPending,
                   nFrame, nCanvas, readers, nSel, selReadFailed, inflight, nRuns,
                   uncaught, staleTick, deadDraw, tdLog>>

RenderInit == Start(Layouts)

RenderNext ==
    \/ Mount
    \/ HandleFileUpload(<<DotStep>>)
    \/ \E id \in readers : ReaderOnLoad(id)
    \/ ProcessFile
    \/ \E o \in RichOutcomes : WasmResolved(o, TRUE)
    \/ \E width \in Widths : WindowResize(width)

SpecRender == RenderInit /\ [][RenderNext]_vars

----------------------------------------------------------------------------
(* Properties *)

(* The extension of a name: what follows its last dot, lower-cased *)
LastDot(s) ==
    LET dots == {i \in 1..Len(s) : s[i] = "."} IN
    IF dots = {} THEN 0 ELSE CHOOSE i \in dots : \A j \in dots : j <= i

Extension(s) ==
    IF LastDot(s) = 0 THEN <<"?">>
    ELSE ToLowerCase(SubSeq(s, LastDot(s) + 1, Len(s)))

StepExts == {<<"s", "t", "e", "p">>, <<"s", "t", "p">>}
IgesExts == {<<"i", "g", "e", "s">>, <<"i", "g", "s">>}
BrepExts == {<<"b", "r", "e", "p">>}

ReachedDispatch == lastRun.outcome \notin {"none", "reject", "typeerror"}

(* C1: a processFile run that reaches the dispatch calls ReadStepFile iff the
   lower-cased name ends in .step or .stp, ReadIgesFile iff in .iges or .igs,
   ReadBrepFile iff in .brep, one entry point once; for any other name it
   calls none, sets the unsupported-type error and ends with loading false. *)
C1_Dispatch ==
    ReachedDispatch =>
      LET e == Extension(lastRun.sel[1].name)
          supported == e \in StepExts \cup IgesExts \cup BrepExts
      IN  /\ (lastRun.fn = "ReadStepFile" /\ lastRun.called = 1) <=> e \in StepExts
          /\ (lastRun.fn = "ReadIgesFile" /\ lastRun.called = 1) <=> e \in IgesExts
          /\ (lastRun.fn = "ReadBrepFile" /\ lastRun.called = 1) <=> e \in BrepExts
          /\ ~supported => /\ lastRun.called = 0
                           /\ error = UnsupportedMsg
          /\ loading = FALSE

C1_Witness ==
    /\ ReachedDispatch
    /\ lastRun.sel[1].name = <<"A", ".", "S", "T", "P">>
    /\ lastRun.fn = "ReadStepFile"
    /\ lastRun.called = 1

(* C2: no geometry and no material is disposed twice, and once the teardown
   hook has run every geometry and material ever created was disposed once. *)
C2_DisposedOnce ==
    \A i \in 1..Len(meshes) :
       /\ meshes[i].geom <= 1
       /\ meshes[i].mat <= 1
       /\ life = "unmounted" => meshes[i].geom = 1 /\ meshes[i].mat = 1

DisposedByTeardown == {tdLog[i].id : i \in {j \in 1..Len(tdLog) : tdLog[j].op = "geometry"}}

C2_Witness ==
    /\ life = "unmounted"
    /\ DisposedByTeardown # {}
    /\ \E i \in 1..Len(meshes) : i \notin DisposedByTeardown

Rank(op) ==
    CASE op = "cancel" -> 1
      [] op = "renderer" -> 2
      [] op = "controls" -> 3
      [] op = "geometry" -> 4
      [] op = "material" -> 4
      [] op = "drop" -> 5

ClaimedRank(op) ==
    CASE op = "cancel" -> 1
      [] op = "geometry" -> 2
      [] op = "material" -> 2
      [] op = "renderer" -> 3
      [] op = "controls" -> 3
      [] op = "drop" -> 4

(* C3, as stated: teardown cancels the frame callback, then releases the
   meshes, then the renderer and the controller, then drops the references. *)
C3_OrderAsClaimed ==
    \A i, j \in 1..Len(tdLog) :
       i < j => ClaimedRank(tdLog[i].op) <= ClaimedRank(tdLog[j].op)

(* C3, amended: teardown cancels the frame callback, then releases the
   renderer, then the controller, then the geometry and material of every
   mesh of the scene (leaving the meshes in the model group), then drops the
   references to scene, camera and model group. *)
C3_TeardownOrder ==
    /\ \A i, j \in 1..Len(tdLog) :
          i < j => Rank(tdLog[i].op) <= Rank(tdLog[j].op)
    /\ life = "unmounted" =>
          /\ tdLog # <<>> /\ tdLog[Len(tdLog)].op = "drop"
          /\ scene = 0 /\ camera = 0 /\ modelGroup = 0 /\ renderer = 0
          /\ \A m \in DisposedByTeardown :
                \E g \in DOMAIN children : \E k \in 1..Len(children[g]) :
                   children[g][k] = m

C3_Witness ==
    /\ life = "unmounted"
    /\ \E i \in 1..Len(tdLog) : tdLog[i].op = "cancel"
    /\ \E i \in 1..Len(tdLog) : tdLog[i].op = "renderer"
    /\ \E i \in 1..Len(tdLog) : tdLog[i].op = "controls"
    /\ \E i \in 1..Len(tdLog) : tdLog[i].op = "material"

ValidIn(recs) == {i \in 1..Len(recs) : recs[i].pos /\ recs[i].idx}

(* C4: after renderModel has run with a scene, the model group holds exactly
   one mesh for each record that has both its position and its index array,
   in the records' order, and none for a record missing either. *)
C4_Materialized ==
    lastRun.rendered =>
      LET g == GroupNow
          made == [k \in 1..Len(g) |-> meshes[g[k]].rec]
      IN  /\ {made[k] : k \in 1..Len(g)} = ValidIn(lastRun.rec)
          /\ Len(g) = Cardinality(ValidIn(lastRun.rec))
          /\ \A k, l \in 1..Len(g) : k < l => made[k] < made[l]

C4_Witness ==
    /\ lastRun.rendered
    /\ Len(lastRun.rec) = 2
    /\ ~lastRun.rec[1].idx
    /\ ValidIn(lastRun.rec) = {2}
    /\ Len(GroupNow) = 1

(* C5: teardown cancels the frame request first, so no frame callback is left
   registered, animate never runs after teardown and never draws with a
   disposed renderer or updates a disposed controller. *)
C5_NoFrameAfterTeardown ==
    /\ ~staleTick
    /\ ~deadDraw
    /\ life = "unmounted" => rafPending = {}
    /\ (\E i \in 1..Len(tdLog) : tdLog[i].op = "renderer") => tdLog[1].op = "cancel"

C5_Witness ==
    /\ life = "unmounted"
    /\ tdLog # <<>>
    /\ tdLog[1].op = "cancel"
    /\ nFrame >= 2
    /\ renderer = 0

(* C6: when the import entry point is called the model group is empty and
   every mesh created before has its geometry and material disposed; the meshes
   in the group after the run are all of this run. *)
C6_ClearedBeforeImport ==
    lastRun.called = 1 =>
      /\ lastRun.groupAtCall = <<>>
      /\ lastRun.liveAtCall = {}
      /\ \A k \in 1..Len(GroupNow) : meshes[GroupNow[k]].run = nRuns - inflight

C6_Witness ==
    /\ lastRun.called = 1
    /\ Len(GroupNow) >= 1
    /\ Len(meshes) > Len(GroupNow)
    /\ meshes[1].run = 1
    /\ nRuns = 2

(* C7: when the import entry point returns success=false or throws, processFile
   ends with an error message that carries the underlying reason when there is
   one, and with the model group empty. *)
C7_FailureReported ==
    lastRun.outcome \in {"fail", "throw"} =>
      /\ error # Null
      /\ lastRun.reason # Null => error[2] = lastRun.reason[1]
      /\ GroupNow = <<>>

C7_Witness ==
    /\ lastRun.outcome = "fail"
    /\ lastRun.reason # Null
    /\ modelGroup # 0
    /\ Len(meshes) >= 1

(* C8: every failure in the pipeline processFile starts is caught and turned
   into the error message; no exception escapes, renderModel's included. *)
C8_AllCaught ==
    /\ uncaught = 0
    /\ lastRun.outcome \in {"reject", "typeerror", "throw", "fail", "renderthrow"}
         => error # Null

(* C9: once the read of the selected file has reported an error, no file
   content is loaded, so processFile stops at its content check, and no import
   entry point is called for that selection. *)
C9_ReadErrorHalts ==
    /\ selReadFailed => fileContent = 0
    /\ ~lastRun.readFailedAtCall

(* C10: at most one processFile invocation is in flight, and loading is true
   for as long as it is. *)
C10_Sequential ==
    /\ inflight <= 1
    /\ inflight = 1 => loading

C10_Witness ==
    /\ inflight = 1
    /\ nRuns = 2
    /\ selectedFile # Null
    /\ fileContent # 0
    /\ life = "mounted"

(* C11: when a successful import yields no usable mesh (meshes missing, empty
   or all invalid) and renderModel runs, the model group is left empty, the
   camera is at (5,5,5) aimed at the origin, the orbit target is the origin,
   and the run leaves the error as it was: null stays null, and the only
   message that can be shown is that of a file read that failed meanwhile,
   never one about the import. *)
C11_EmptyImportResets ==
    (lastRun.rendered /\ ValidIn(lastRun.rec) = {}) =>
      /\ GroupNow = <<>>
      /\ camPos = <<DefaultCameraPosition>>
      /\ camAim = <<Origin>>
      /\ ctlTarget = <<Origin>>
      /\ error = lastRun.errBefore
      /\ error \in {Null, ReadFailedMsg}
      /\ lastRun.outcome = "ok"

C11_Witness ==
    /\ lastRun.rendered
    /\ Len(lastRun.rec) = 2
    /\ ValidIn(lastRun.rec) = {}
    /\ error = Null
    /\ nRuns = 2
    /\ Len(meshes) >= 1
    /\ camPos = <<DefaultCameraPosition>>

(* The promise of occtimportjs() settles: a suspended processFile is resumed,
   by the promise resolving or by its rejecting *)
Settle ==
    \/ \E msg \in Reasons \cup {Null} : WasmRejected(msg)
    \/ \E o \in Outcomes, webgl \in BOOLEAN : WasmResolved(o, webgl)

FairSpec == Spec /\ WF_vars(Settle)

(* C12: loading is true exactly while a processFile that passed its content
   check is in the pipeline, suspended or not; once the WASM initialization
   settles it becomes false again, whatever the exit path; and while loading
   is true a started render loop keeps its frame callback registered. *)
C12_LoadingTracksPipeline ==
    /\ [](loading <=> inflight > 0)
    /\ (loading ~> ~loading)
    /\ []((loading /\ renderer # 0) => rafPending = {animationFrameId})

C12_Witness ==
    /\ loading
    /\ inflight = 1
    /\ renderer # 0
    /\ rafPending # {}
    /\ nFrame >= 1

(* The records of the last run whose meshes are in the model group, in the
   group's order *)
Drawn == [k \in 1..Len(GroupNow) |-> lastRun.rec[meshes[GroupNow[k]].rec]]

(* C13 as stated: with V the number of whole vertices a position array
   encodes, the index buffer of its mesh is 16-bit if and only if V <= 65535,
   whatever the array's length. *)
C13_WidthByVertexCount ==
    lastRun.rendered =>
      \A k \in 1..Len(GroupNow) :
        (meshes[GroupNow[k]].index = "Uint16Array") <=> (Drawn[k].len \div 3 <= 65535)

(* C13: the index buffer of a mesh is 16-bit if and only if the length of its
   position array is at most 196605 (three times 65535), and 32-bit otherwise:
   for a length that is a multiple of 3 this is V <= 65535, while the lengths
   196606 and 196607, which hold 65535 whole vertices, get the 32-bit type. *)
C13_WidthByLength ==
    lastRun.rendered =>
      \A k \in 1..Len(GroupNow) :
        /\ meshes[GroupNow[k]].index \in {"Uint16Array", "Uint32Array"}
        /\ (meshes[GroupNow[k]].index = "Uint16Array") <=> (Drawn[k].len <= 196605)

C13_Witness ==
    /\ lastRun.rendered
    /\ Len(GroupNow) = 1
    /\ Drawn[1].len = 196606
    /\ meshes[GroupNow[1]].index = "Uint32Array"

(* The boxes of the meshes in the model group that span at least a point *)
DrawnBoxes == {Drawn[k].box[1] : k \in {j \in 1..Len(GroupNow) : Drawn[j].box # Null}}

Least(xs) == CHOOSE x \in xs : \A y \in xs : x <= y

Greatest(xs) == CHOOSE x \in xs : \A y \in xs : x >= y

(* C14: after renderModel has materialized meshes whose union box is not
   empty, with C the box's center and maxDim its largest extent, the camera
   is at C + (0, d/2, d), where d = maxDim / 2 / tan(fov/2), times the aspect
   ratio only if the ratio exceeds 1; the camera is aimed at C and the orbit
   target is C.  Coordinates are a + b / tan(fov/2) in units of 1/Unit. *)
C14_CameraFitted ==
    (lastRun.rendered /\ DrawnBoxes # {}) =>
      LET lo == [k \in 1..3 |-> Least({b.lo[k] : b \in DrawnBoxes})]
          hi == [k \in 1..3 |-> Greatest({b.hi[k] : b \in DrawnBoxes})]
          maxDim == Greatest({hi[k] - lo[k] : k \in 1..3})
          wide == aspect[1] > aspect[2]
      IN  /\ camPos # Null /\ camAim # Null /\ ctlTarget # Null
          /\ \A k \in 1..3 : 2 * camPos[1].a[k] = (lo[k] + hi[k]) * Unit
          /\ camPos[1].b[1] = 0
          /\ 2 * camPos[1].b[2] = camPos[1].b[3]
          /\ wide => 2 * aspect[2] * camPos[1].b[3] = maxDim * Unit * aspect[1]
          /\ ~wide => 2 * camPos[1].b[3] = maxDim * Unit
          /\ camAim[1] = Pt(camPos[1].a, Zero3)
          /\ ctlTarget = camAim

C14_Witness ==
    /\ lastRun.rendered
    /\ nRuns = 2
    /\ Len(GroupNow) = 2
    /\ Drawn[1].box = WideBox
    /\ Drawn[2].box = PlainBox
    /\ aspect = <<4 * 400, 3 * 400>>
    /\ camPos = <<Pt(<<0, 12, 36>>, <<0, 32, 64>>)>>

(* C15: clearModel is idempotent.  Called when the model group does not exist
   or is empty it changes nothing and disposes nothing, and a second call
   right after a first changes nothing more. *)
C15_ClearModelIdempotent ==
    /\ (modelGroup = 0 \/ GroupNow = <<>>) => ClearModel(Cur) = Cur
    /\ ClearModel(ClearModel(Cur)) = ClearModel(Cur)
    /\ ClearModel(Cur).meshes = [i \in 1..Len(meshes) |->
          IF \E k \in 1..Len(GroupNow) : GroupNow[k] = i
          THEN [meshes[i] EXCEPT !.geom = @ + 1, !.mat = @ + 1]
          ELSE meshes[i]]

C15_Witness ==
    /\ inflight = 1
    /\ nRuns = 2
    /\ modelGroup # 0
    /\ GroupNow = <<>>
    /\ Len(meshes) >= 1
    /\ \A i \in 1..Len(meshes) : meshes[i].geom = 1 /\ meshes[i].mat = 1

(* C16: the material of a mesh takes the record's colour, each channel over
   255, exactly when the record has a colour of three channels; with no
   colour, or one of another length, it is the gray 0xcccccc; it is
   double-sided either way. *)
C16_MaterialColor ==
    lastRun.rendered =>
      \A k \in 1..Len(GroupNow) :
        LET m == meshes[GroupNow[k]].material
            c == Drawn[k].color
        IN  /\ m.side = "DoubleSide"
            /\ (c # Null /\ Len(c[1]) = 3) =>
                 /\ m.kind = "rgb"
                 /\ Len(m.rgb) = 3
                 /\ \A i \in 1..3 : m.rgb[i].num = c[1][i] /\ m.rgb[i].den = 255
            /\ (c = Null \/ Len(c[1]) # 3) =>
                 /\ m.kind = "hex"
                 /\ m.hex = 12 * 16 * 16 * 16 * 16 * 16 + 12 * 16 * 16 * 16 * 16
                            + 12 * 16 * 16 * 16 + 12 * 16 * 16 + 12 * 16 + 12

C16_Witness ==
    /\ lastRun.rendered
    /\ Len(GroupNow) = 1
    /\ Drawn[1].color = <<<<255, 0, 128>>>>
    /\ meshes[GroupNow[1]].material.kind = "rgb"
    /\ meshes[GroupNow[1]].material.rgb[3] = [num |-> 128, den |-> 255]

(* C17: whenever meshes are in the model group, the renderer that draws them
   was created on the canvas that is now mounted in the view. *)
C17_RendererOnMountedCanvas ==
    GroupNow # <<>> =>
      /\ renderer # 0
      /\ threeCanvas # 0
      /\ rendererCanvas = threeCanvas

(* C18: whenever an import entry point is called, the bytes it gets are the
   loaded content of the file selected at that moment, the file whose
   extension chose the entry point. *)
C18_BytesOfSelectedFile ==
    lastRun.called = 1 =>
      /\ lastRun.sel # Null
      /\ lastRun.bytes = lastRun.sel[1].id
      /\ lastRun.fn = ImportFunctionFor(lastRun.sel[1].name)

(* C19: once the component is unmounted, no step creates a scene, a camera, a
   renderer, a controller, a frame request, a geometry or a material: a
   processFile resumed after the unmount finds no canvas in renderModel and
   returns, adding no mesh and starting no render loop. *)
C19_NothingCreatedAfterUnmount ==
    [][life = "unmounted" =>
         /\ life' = "unmounted"
         /\ nInit' = nInit
         /\ nFrame' = nFrame
         /\ Len(meshes') = Len(meshes)
         /\ scene' = 0 /\ camera' = 0 /\ renderer' = 0
         /\ controls' = controls
         /\ modelGroup' = 0
         /\ rafPending' = {}
         /\ threeCanvas' = 0
         /\ ~lastRun'.rendered]_vars

C19_Witness ==
    /\ life = "unmounted"
    /\ tdLog # <<>>
    /\ lastRun.outcome = "ok"
    /\ ValidIn(lastRun.rec) # {}
    /\ ~lastRun.rendered
    /\ scene = 0
    /\ rafPending = {}

(* C20: at most one render loop exists.  At most one frame callback is
   registered at a time and animationFrameId names it; and a step in which
   initThreeDScene builds the renderer and starts animate happens only when
   animate has never run before, however often the mount hook and renderModel
   call initThreeDScene. *)
C20_OneRenderLoop ==
    /\ [](/\ Cardinality(rafPending) <= 1
          /\ rafPending # {} => rafPending = {animationFrameId})
    /\ [][(renderer' # renderer /\ renderer' # 0) =>
            /\ nFrame = 0
            /\ rafPending = {}
            /\ rafPending' = {animationFrameId'}]_vars

C20_Witness ==
    /\ nInit = 2
    /\ nRuns = 2
    /\ renderer # 0
    /\ rafPending = {animationFrameId}
    /\ nFrame >= 2
    /\ life = "mounted"

(* C21: a processFile called while no file content is loaded only sets the
   error to the no-file message: loading, result, the selected file, the
   model group, the camera and everything else stay as they were, no WASM
   initialization is started and no import entry point is called. *)
C21_NoContentOnlySetsError ==
    [][(ProcessFile /\ fileContent = 0) =>
         /\ error' = NoFileMsg
         /\ loading' = loading /\ result' = result
         /\ selectedFile' = selectedFile /\ fileContent' = 0
         /\ inflight' = inflight /\ nRuns' = nRuns
         /\ lastRun'.called = 0
         /\ threeCanvas' = threeCanvas
         /\ UNCHANGED three]_vars

C21_Witness ==
    /\ error = NoFileMsg
    /\ fileContent = 0
    /\ selectedFile # Null
    /\ ~loading
    /\ inflight = 0
    /\ result # Null
    /\ GroupNow # <<>>
    /\ camPos # <<DefaultCameraPosition>>
====
